---- MODULE Spec2Model ----
(***************************************************************************)
(* Model of the attendance service in src/app.py: four SQLite tables       *)
(* (classes, students, periods, attendance) and the Flask handlers that    *)
(* read and write them.                                                    *)
(*                                                                         *)
(* Tables are sets of rows, so that a primary key is something the         *)
(* statements have to keep, not something the representation gives.        *)
(* Text that the code trims or parses (CSV fields, the class_id query      *)
(* argument) is a sequence of one-character strings; reg_no and            *)
(* student_name are stored in that form.                                   *)
(* attendance_percentage is kept in hundredths (6667 stands for 66.67).    *)
(***************************************************************************)
EXTENDS Integers, Sequences, FiniteSets, TLC

VARIABLES classes, students, periods, attendance, sqlite_sequence,
          resp, pc, conn, lock, returned

vars == <<classes, students, periods, attendance, sqlite_sequence,
          resp, pc, conn, lock, returned>>

tables == <<classes, students, periods, attendance, sqlite_sequence>>

threads == <<pc, conn, lock>>

(***************************************************************************)
(* Bounds                                                                  *)
(***************************************************************************)
MaxPeriods == 2

MaxBatch == 2

MaxRows == 2

None == "None"

Threads == {"t1", "t2"}

(* Sequences over S of length at most n *)
SeqUpTo(S, n) == UNION {[1..k -> S] : k \in 0..n}

(***************************************************************************)
(* Text helpers: str.strip() and int() of Python, as bulk_add_students     *)
(* uses them                                                               *)
(***************************************************************************)
Whitespace == {" "}

DigitChars == {"0", "1", "2", "3", "4", "5", "6", "7", "8", "9"}

DigitValue(ch) ==
    CASE ch = "0" -> 0 [] ch = "1" -> 1 [] ch = "2" -> 2 [] ch = "3" -> 3
      [] ch = "4" -> 4 [] ch = "5" -> 5 [] ch = "6" -> 6 [] ch = "7" -> 7
      [] ch = "8" -> 8 [] ch = "9" -> 9

RECURSIVE lstrip(_)
lstrip(s) == IF s # <<>> /\ Head(s) \in Whitespace THEN lstrip(Tail(s)) ELSE s

RECURSIVE rstrip(_)
rstrip(s) ==
    IF s # <<>> /\ s[Len(s)] \in Whitespace
    THEN rstrip(SubSeq(s, 1, Len(s) - 1))
    ELSE s

strip(s) == rstrip(lstrip(s))

RECURSIVE DecimalValue(_)
DecimalValue(s) ==
    IF s = <<>> THEN 0
    ELSE 10 * DecimalValue(SubSeq(s, 1, Len(s) - 1)) + DigitValue(s[Len(s)])

(* int(text): a value, or ValueError for an empty or non-numeric text *)
int(s) ==
    IF s # <<>> /\ \A i \in 1..Len(s) : s[i] \in DigitChars
    THEN [error |-> None, value |-> DecimalValue(s)]
    ELSE [error |-> "ValueError", value |-> 0]

(***************************************************************************)
(* SQL statements                                                          *)
(***************************************************************************)
(* Faulty variant: the insert replaces the row that has the key *)
insert_classes_replacing(tbl, row) ==
    [error |-> None,
     rows |-> {r \in tbl : r.class_id # row.class_id} \cup {row}]

(* INSERT INTO classes: class_id is the primary key *)
insert_classes(tbl, row) ==
    IF \E r \in tbl : r.class_id = row.class_id
    THEN [error |-> "IntegrityError", rows |-> tbl]
    ELSE [error |-> None, rows |-> tbl \cup {row}]

(* Faulty variant: reg_no is no key of the table *)
insert_students_unchecked(tbl, row) ==
    [error |-> None, rows |-> tbl \cup {row}]

(* INSERT INTO students: reg_no is the primary key *)
insert_students(tbl, row) ==
    IF \E r \in tbl : r.reg_no = row.reg_no
    THEN [error |-> "IntegrityError", rows |-> tbl]
    ELSE [error |-> None, rows |-> tbl \cup {row}]

Max(S) == CHOOSE x \in S : \A y \in S : y <= x

(* Faulty variant: the largest rowid is given out again *)
autoincrement_stale(tbl, seq) == Max({seq} \cup {r.period_id : r \in tbl})

(* period_id INTEGER PRIMARY KEY AUTOINCREMENT: one more than the largest
   rowid the table has ever held *)
autoincrement(tbl, seq) == Max({seq} \cup {r.period_id : r \in tbl}) + 1

(* Faulty variant: a plain insert into a table without the key *)
insert_attendance_keeping(tbl, row) == tbl \cup {row}

(* Faulty variant: the replace clears the marks of the whole period *)
replace_period_attendance(tbl, row) ==
    {r \in tbl : r.period_id # row.period_id} \cup {row}

(* INSERT OR REPLACE INTO attendance: (period_id, reg_no) is the primary key *)
insert_or_replace_attendance(tbl, row) ==
    {r \in tbl : ~(r.period_id = row.period_id /\ r.reg_no = row.reg_no)}
        \cup {row}

(* A connection can start writing when no other connection holds the
   database's write lock; otherwise its statement waits *)
can_write == lock = None

Response(op, request, status, body) ==
    [op |-> op, request |-> request, status |-> status, body |-> body]

(***************************************************************************)
(* Initial state: init_db on an empty database file                        *)
(***************************************************************************)
Init ==
    /\ classes = {}
    /\ students = {}
    /\ periods = {}
    /\ attendance = {}
    /\ sqlite_sequence = 0
    /\ resp = Response("init_db", None, 0, None)
    /\ pc = [t \in Threads |-> "idle"]
    /\ conn = [t \in Threads |-> [lastrowid |-> 0, data |-> None]]
    /\ lock = None
    /\ returned = <<>>

(***************************************************************************)
(* POST /api/classes                                                       *)
(***************************************************************************)
add_class(data) ==
    LET department == IF "department" \in DOMAIN data THEN data.department ELSE ""
        row == [class_id |-> data.class_id, class_name |-> data.class_name,
                department |-> department]
        r == insert_classes(classes, row)
    IN  /\ can_write
        /\ IF r.error = None
           THEN /\ classes' = r.rows
                /\ resp' = Response("add_class", data, 201, "Class added")
           ELSE /\ classes' = classes
                /\ resp' = Response("add_class", data, 400, "Class ID already exists")
        /\ UNCHANGED <<students, periods, attendance, sqlite_sequence,
                       threads, returned>>

(* GET /api/classes *)
get_classes ==
    /\ resp' = Response("get_classes", None, 200, classes)
    /\ UNCHANGED <<tables, threads, returned>>

(***************************************************************************)
(* POST /api/students                                                      *)
(***************************************************************************)
add_student(data) ==
    LET row == [reg_no |-> data.reg_no, student_name |-> data.student_name,
                class_id |-> data.class_id]
        r == insert_students(students, row)
    IN  /\ can_write
        /\ IF r.error = None
           THEN /\ students' = r.rows
                /\ resp' = Response("add_student", data, 201, "Student added")
           ELSE /\ students' = students
                /\ resp' = Response("add_student", data, 400,
                                    "Student registration number already exists")
        /\ UNCHANGED <<classes, periods, attendance, sqlite_sequence,
                       threads, returned>>


(***************************************************************************)
(* GET /api/students?class_id=...                                          *)
(***************************************************************************)
(* Faulty variant: the column is compared with the parameter as text *)
class_id_as_text(column, text) ==
    \E ch \in DigitChars : DigitValue(ch) = column /\ text = <<ch>>

(* The comparison students.class_id = ? of an INTEGER column with a text
   parameter: SQLite gives the text NUMERIC affinity, so a text that is an
   integer literal (blanks around it allowed) compares as that integer and
   any other text equals no integer. *)
class_id_matches(column, text) ==
    LET n == int(strip(text))
    IN  n.error = None /\ n.value = column

(* args holds the query string: request.args.get("class_id") is absent or
   a text, and an empty text is falsy *)
get_students(args) ==
    LET rows == IF "class_id" \in DOMAIN args /\ args.class_id # <<>>
                THEN {s \in students : class_id_matches(s.class_id, args.class_id)}
                ELSE students
    IN  /\ resp' = Response("get_students", args, 200, rows)
        /\ UNCHANGED <<tables, threads, returned>>

(***************************************************************************)
(* POST /api/students/bulk                                                 *)
(***************************************************************************)
(* Faulty variant: the header is read as a row of data *)
keep_header(rows) == rows

(* next(csv_reader, None): the first row is dropped, whatever it holds *)
skip_header(rows) == IF rows = <<>> THEN rows ELSE Tail(rows)

(* The body of the loop over the rows of the file, in one transaction *)
RECURSIVE import_rows(_, _)
import_rows(rows, acc) ==
    IF rows = <<>> THEN acc
    ELSE LET row == Head(rows)
             class_id == int(strip(row[3]))
             r == insert_students(acc.rows,
                      [reg_no |-> strip(row[1]), student_name |-> strip(row[2]),
                       class_id |-> class_id.value])
         IN  IF Len(row) < 3
             THEN import_rows(Tail(rows), acc)
             ELSE IF class_id.error # None \/ r.error # None
             THEN import_rows(Tail(rows), [acc EXCEPT !.skipped = @ + 1])
             ELSE import_rows(Tail(rows),
                      [acc EXCEPT !.rows = r.rows, !.added = @ + 1])

bulk_add_students(upload) ==
    LET done == import_rows(skip_header(upload.rows),
                            [rows |-> students, added |-> 0, skipped |-> 0])
    IN  /\ can_write
        /\ IF ~upload.file
           THEN /\ students' = students
                /\ resp' = Response("bulk_add_students", upload, 400, "No file provided")
           ELSE IF upload.filename = ""
           THEN /\ students' = students
                /\ resp' = Response("bulk_add_students", upload, 400, "No file selected")
           ELSE IF ~upload.utf8
           THEN /\ students' = students
                /\ resp' = Response("bulk_add_students", upload, 400,
                                    "Error processing file")
           ELSE /\ students' = done.rows
                /\ resp' = Response("bulk_add_students", upload, 201,
                               [added |-> done.added, skipped |-> done.skipped])
        /\ UNCHANGED <<classes, periods, attendance, sqlite_sequence,
                       threads, returned>>

(***************************************************************************)
(* POST /api/periods                                                       *)
(***************************************************************************)
period_row(period_id, data) ==
    [period_id |-> period_id, class_id |-> data.class_id,
     subject_name |-> data.subject_name, period_date |-> data.period_date,
     period_number |-> data.period_number]

(* One request served from start to end with no other request in between *)
create_period(data) ==
    LET period_id == autoincrement(periods, sqlite_sequence)
    IN  /\ can_write
        /\ \A t \in Threads : pc[t] = "idle"
        /\ sqlite_sequence < MaxPeriods
        /\ periods' = periods \cup {period_row(period_id, data)}
        /\ sqlite_sequence' = period_id
        /\ returned' = Append(returned, period_id)
        /\ resp' = Response("create_period", data, 201, period_id)
        /\ UNCHANGED <<classes, students, attendance, threads>>

(* The same handler in the steps other requests can interleave with.
   c.execute(INSERT): the connection takes the database's write lock, which
   it holds until it commits; c.lastrowid is the id the insert was given. *)
create_period_execute(t, data) ==
    LET period_id == autoincrement(periods, sqlite_sequence)
    IN  /\ pc[t] = "idle"
        /\ can_write
        /\ sqlite_sequence < MaxPeriods
        /\ lock' = t
        /\ conn' = [conn EXCEPT ![t] = [lastrowid |-> period_id, data |-> data]]
        /\ pc' = [pc EXCEPT ![t] = "executed"]
        /\ UNCHANGED <<tables, resp, returned>>

(* The write lock stays taken for longer than the connection's timeout:
   c.execute raises OperationalError and the request ends with 500 *)
create_period_locked(t, data) ==
    /\ pc[t] = "idle"
    /\ ~can_write
    /\ resp' = Response("create_period", data, 500, "OperationalError")
    /\ UNCHANGED <<tables, threads, returned>>

(* conn.commit(); conn.close() *)
create_period_commit(t) ==
    /\ pc[t] = "executed"
    /\ periods' = periods \cup {period_row(conn[t].lastrowid, conn[t].data)}
    /\ sqlite_sequence' = conn[t].lastrowid
    /\ lock' = None
    /\ pc' = [pc EXCEPT ![t] = "committed"]
    /\ UNCHANGED <<classes, students, attendance, conn, resp, returned>>

(* return jsonify({..., "period_id": period_id}), 201 *)
create_period_return(t) ==
    /\ pc[t] = "committed"
    /\ returned' = Append(returned, conn[t].lastrowid)
    /\ resp' = Response("create_period", conn[t].data, 201, conn[t].lastrowid)
    /\ pc' = [pc EXCEPT ![t] = "idle"]
    /\ conn' = [conn EXCEPT ![t] = [lastrowid |-> 0, data |-> None]]
    /\ UNCHANGED <<tables, lock>>

(***************************************************************************)
(* POST /api/attendance                                                    *)
(***************************************************************************)
(* The loop over attendance_list inside the connection's transaction: a
   record without reg_no or is_present raises KeyError and ends the loop *)
RECURSIVE execute_records(_, _, _)
execute_records(txn, period_id, attendance_list) ==
    IF attendance_list = <<>> THEN [error |-> None, rows |-> txn]
    ELSE LET record == Head(attendance_list)
         IN  IF ~({"reg_no", "is_present"} \subseteq DOMAIN record)
             THEN [error |-> "KeyError", rows |-> txn]
             ELSE execute_records(
                      insert_or_replace_attendance(txn,
                          [period_id |-> period_id, reg_no |-> record.reg_no,
                           is_present |-> record.is_present]),
                      period_id, Tail(attendance_list))

(* conn.commit(): the transaction's rows become the table *)
commit(committed, txn) == txn

(* Faulty variant: every statement is committed as it is executed *)
close_autocommitted(committed, txn) == txn

(* The handler left by an exception: the connection is dropped with its
   transaction open, which rolls the transaction back *)
close_uncommitted(committed, txn) == committed

mark_attendance(data) ==
    LET r == execute_records(attendance, data.period_id, data.attendance)
    IN  /\ can_write
        /\ IF r.error = None
           THEN /\ attendance' = commit(attendance, r.rows)
                /\ resp' = Response("mark_attendance", data, 200, "Attendance saved")
           ELSE /\ attendance' = close_uncommitted(attendance, r.rows)
                /\ resp' = Response("mark_attendance", data, 500, r.error)
        /\ UNCHANGED <<classes, students, periods, sqlite_sequence,
                       threads, returned>>

(***************************************************************************)
(* GET /api/attendance/<reg_no>                                            *)
(***************************************************************************)
(* Faulty variant: the percentage is cut after two decimals *)
round2_truncated(num, den) == (num * 10000) \div den

(* round(num * 100.0 / den, 2), in hundredths; a tie goes to the even
   hundredth *)
round2(num, den) ==
    LET q == (num * 10000) \div den
        rem == (num * 10000) % den
    IN  IF 2 * rem > den \/ (2 * rem = den /\ q % 2 = 1) THEN q + 1 ELSE q

(* Faulty variant: the query starts from the attendance rows *)
overall_query_from_attendance(reg_no) ==
    {[reg_no |-> r, student_name |-> <<>>,
      total_classes |-> Cardinality({a \in attendance : a.reg_no = r}),
      attended_classes |->
          Cardinality({a \in attendance : a.reg_no = r /\ a.is_present = 1})]
     : r \in {a.reg_no : a \in {x \in attendance : x.reg_no = reg_no}}}

(* FROM students s LEFT JOIN attendance a ON s.reg_no = a.reg_no
   WHERE s.reg_no = ? GROUP BY s.reg_no, s.student_name *)
overall_query(reg_no) ==
    {[reg_no |-> s.reg_no, student_name |-> s.student_name,
      total_classes |->
          Cardinality({a \in attendance : a.reg_no = s.reg_no}),
      attended_classes |->
          Cardinality({a \in attendance : a.reg_no = s.reg_no /\ a.is_present = 1})]
     : s \in {x \in students : x.reg_no = reg_no}}

get_overall_attendance(reg_no) ==
    LET found == overall_query(reg_no)
        row == CHOOSE x \in found : TRUE
        percentage == IF row.total_classes > 0
                      THEN round2(row.attended_classes, row.total_classes)
                      ELSE 0
    IN  /\ IF found = {}
           THEN resp' = Response("get_overall_attendance", reg_no, 404,
                                 "Student not found")
           ELSE resp' = Response("get_overall_attendance", reg_no, 200,
                            [reg_no |-> row.reg_no, student_name |-> row.student_name,
                             total_classes |-> row.total_classes,
                             attended_classes |-> row.attended_classes,
                             attendance_percentage |-> percentage])
        /\ UNCHANGED <<tables, threads, returned>>


(***************************************************************************)
(* Requests                                                                *)
(***************************************************************************)
ClassIds == {1, 2}

ClassNames == {"CSE-A", "CSE-B"}

RegA == <<"A">>

RegB == <<"B">>

Name == <<"n">>

ClassRequests ==
    [class_id : ClassIds, class_name : ClassNames]
        \cup {[class_id |-> 1, class_name |-> "CSE-A", department |-> "CSE"]}

StudentRequests ==
    [reg_no : {RegA, RegB}, student_name : {Name}, class_id : ClassIds]

NoArgs == <<>>

StudentQueries ==
    {NoArgs} \cup [class_id : {<<>>, <<"1">>, <<"2">>, <<"0", "2">>, <<"x">>}]

PeriodRequests(ids) ==
    [class_id : ids, subject_name : {"Maths"}, period_date : {"2025-12-15"},
     period_number : {1}]

(* CSV rows: fields to trim, a class_id that is no number, a short row *)
HeaderRow == <<<<"r">>, <<"n">>, <<"c">>>>

RowA == <<<<"A", " ">>, <<" ", "m">>, <<" ", "1">>>>

RowB == <<<<"B">>, <<"n">>, <<"2">>, <<"x">>>>

RowBad == <<<<"B">>, <<"n">>, <<"x">>>>

RowShort == <<<<"A">>, <<"n">>>>

DataRows == {RowA, RowB, RowBad, RowShort}

File(rows) == [file |-> TRUE, filename |-> "students.csv", utf8 |-> TRUE, rows |-> rows]

BadUploads ==
    {[file |-> FALSE, filename |-> "", utf8 |-> TRUE, rows |-> <<>>],
     [file |-> TRUE, filename |-> "", utf8 |-> TRUE, rows |-> <<>>],
     [file |-> TRUE, filename |-> "students.csv", utf8 |-> FALSE, rows |-> <<>>]}

(* Good rows, a duplicate reg_no and a row of two fields *)
ExampleFile == File(<<HeaderRow, RowA, RowB, RowA, RowShort>>)

(* An empty file, a file with data in the place of the header, or a header
   and at most n rows after it *)
Uploads(n) ==
    BadUploads \cup {File(<<>>), File(<<RowB, RowA>>), ExampleFile}
        \cup {File(<<HeaderRow>> \o rows) : rows \in SeqUpTo(DataRows, n)}

BulkUploads == Uploads(MaxRows)

SmallUploads == Uploads(0) \cup {File(<<HeaderRow, RowA, RowB>>)}

Present(reg_no, is_present) == [reg_no |-> reg_no, is_present |-> is_present]

(* An entry of the attendance list with no is_present *)
Malformed == [reg_no |-> RegA]

MarkRequests(period_ids, records, n) ==
    [period_id : period_ids, attendance : SeqUpTo(records, n)]

(***************************************************************************)
(* Spec: every handler, requests served one at a time                      *)
(***************************************************************************)
Next ==
    \/ \E data \in ClassRequests : add_class(data)
    \/ get_classes
    \/ \E data \in StudentRequests : add_student(data)
    \/ \E args \in {NoArgs, [class_id |-> <<"1">>]} : get_students(args)
    \/ \E upload \in SmallUploads : bulk_add_students(upload)
    \/ \E data \in PeriodRequests({1}) : create_period(data)
    \/ \E data \in MarkRequests({1}, {Present(RegA, 0), Present(RegA, 1),
                                      Present(RegB, 1), Malformed}, 1) :
           mark_attendance(data)
    \/ \E reg_no \in {RegA, RegB} : get_overall_attendance(reg_no)

Spec == Init /\ [][Next]_vars

(***************************************************************************)
(* SpecStudents: the students table, with bulk import                      *)
(***************************************************************************)
NextStudents ==
    \/ \E data \in StudentRequests : add_student(data)
    \/ \E args \in StudentQueries : get_students(args)
    \/ \E upload \in BulkUploads : bulk_add_students(upload)

SpecStudents == Init /\ [][NextStudents]_vars

(***************************************************************************)
(* SpecMark: batches of attendance marks                                   *)
(***************************************************************************)
NextMark ==
    \E data \in MarkRequests({1, 2}, {Present(RegA, 0), Present(RegA, 1),
                                      Present(RegB, 1), Malformed}, MaxBatch) :
        mark_attendance(data)

SpecMark == Init /\ [][NextMark]_vars

(***************************************************************************)
(* SpecOverall: the attendance summary over students, periods and marks    *)
(***************************************************************************)
NextOverall ==
    \/ \E data \in [reg_no : {RegA}, student_name : {Name}, class_id : {1}] :
           add_student(data)
    \/ \E data \in PeriodRequests({1}) : create_period(data)
    \/ \E data \in MarkRequests({1, 2, 3}, {Present(RegA, 0), Present(RegA, 1),
                                            Present(RegB, 1)}, 1) :
           mark_attendance(data)
    \/ \E reg_no \in {RegA, RegB} : get_overall_attendance(reg_no)

SpecOverall == Init /\ [][NextOverall]_vars

(***************************************************************************)
(* SpecConcurrent: create_period requests served by two threads            *)
(***************************************************************************)
NextConcurrent ==
    \/ \E t \in Threads, data \in PeriodRequests({1}) : create_period_execute(t, data)
    \/ \E t \in Threads, data \in PeriodRequests({1}) : create_period_locked(t, data)
    \/ \E t \in Threads : create_period_commit(t)
    \/ \E t \in Threads : create_period_return(t)
    \/ \E data \in MarkRequests({1}, {Present(RegA, 0), Present(RegA, 1)}, 1) :
           mark_attendance(data)

SpecConcurrent == Init /\ [][NextConcurrent]_vars


(***************************************************************************)
(* Claims                                                                  *)
(***************************************************************************)
SameKey(a, b) == a.period_id = b.period_id /\ a.reg_no = b.reg_no

(* The entries of a batch that no later entry of the batch overrides *)
LastMarks(data) ==
    {[period_id |-> data.period_id, reg_no |-> data.attendance[i].reg_no,
      is_present |-> data.attendance[i].is_present] :
         i \in {j \in 1..Len(data.attendance) :
                   \A k \in (j + 1)..Len(data.attendance) :
                       data.attendance[k].reg_no # data.attendance[j].reg_no}}

(* C1: after every mark_attendance request the attendance table holds at
   most one row per (period_id, reg_no), and an applied batch leaves, for
   each pair it names, exactly the row of the batch's last entry for that
   pair, the rows of all other pairs staying as they were. *)
C1_UpsertLatestWins ==
    [][/\ \A a, b \in attendance' : SameKey(a, b) => a = b
       /\ (resp'.op = "mark_attendance" /\ resp'.status = 200) =>
              LET marks == LastMarks(resp'.request)
              IN  /\ marks \subseteq attendance'
                  /\ {r \in attendance' : \A m \in marks : ~SameKey(r, m)}
                       = {r \in attendance : \A m \in marks : ~SameKey(r, m)}]_vars

(* A batch marks the same student present and then absent, after an earlier
   request had marked the student present: one row is left, absent *)
C1_Witness ==
    /\ resp.op = "mark_attendance"
    /\ resp.status = 200
    /\ resp.request = [period_id |-> 1,
                       attendance |-> <<Present(RegA, 1), Present(RegA, 0)>>]
    /\ {r \in attendance : r.period_id = 1 /\ r.reg_no = RegA}
         = {[period_id |-> 1, reg_no |-> RegA, is_present |-> 0]}
    /\ Cardinality(attendance) >= 2

(* The entries of a failed batch that precede its first malformed entry *)
WellFormed(record) == {"reg_no", "is_present"} \subseteq DOMAIN record

Preceding(data) ==
    LET first == CHOOSE i \in 1..Len(data.attendance) :
                     /\ ~WellFormed(data.attendance[i])
                     /\ \A j \in 1..(i - 1) : WellFormed(data.attendance[j])
    IN  [period_id |-> data.period_id,
         attendance |-> SubSeq(data.attendance, 1, first - 1)]

MarkedPeriods(reg_no) ==
    {p \in {a.period_id : a \in attendance} :
        \E a \in attendance : a.period_id = p /\ a.reg_no = reg_no}

AttendedPeriods(reg_no) ==
    {p \in MarkedPeriods(reg_no) :
        \E a \in attendance :
            a.period_id = p /\ a.reg_no = reg_no /\ a.is_present = 1}

(* h hundredths is num * 100 / den rounded to two decimals *)
NearestHundredth(h, num, den) ==
    /\ 2 * (h * den - num * 10000) <= den
    /\ 2 * (num * 10000 - h * den) <= den

(* C2: for an existing student, get_overall_attendance answers 200 with
   total_classes the number of attendance rows of the student (whatever the
   periods table holds), attended_classes the number of those marked
   present, and attendance_percentage attended * 100 / total rounded to two
   decimals, or 0.0 with both counts 0 when the student has no rows. *)
C2_OverallCounts ==
    (/\ resp.op = "get_overall_attendance"
     /\ \E s \in students : s.reg_no = resp.request) =>
        LET total == Cardinality(MarkedPeriods(resp.request))
            attended == Cardinality(AttendedPeriods(resp.request))
        IN  /\ resp.status = 200
            /\ resp.body.reg_no = resp.request
            /\ resp.body.total_classes = total
            /\ resp.body.attended_classes = attended
            /\ IF total = 0
               THEN /\ resp.body.attended_classes = 0
                    /\ resp.body.attendance_percentage = 0
               ELSE NearestHundredth(resp.body.attendance_percentage,
                                     attended, total)

(* Marks in three periods, present in two, gives 66.67, while the periods
   table holds a single period *)
C2_Witness ==
    /\ resp.op = "get_overall_attendance"
    /\ resp.status = 200
    /\ resp.body.total_classes = 3
    /\ resp.body.attended_classes = 2
    /\ resp.body.attendance_percentage = 6667
    /\ Cardinality(periods) = 1

(* C3: get_overall_attendance for a reg_no that no student row has answers
   404 and no counts, also when attendance rows exist for that reg_no. *)
C3_UnknownStudentNotFound ==
    (/\ resp.op = "get_overall_attendance"
     /\ ~\E s \in students : s.reg_no = resp.request) =>
        resp.status = 404 /\ resp.body = "Student not found"

(* 404 for a reg_no that has attendance rows and no student row *)
C3_Witness ==
    /\ resp.op = "get_overall_attendance"
    /\ resp.status = 404
    /\ \E a \in attendance : a.reg_no = resp.request
    /\ students # {}

(* C4: add_class with a class_id that a row already has answers 400 and
   leaves every table as it was; with a class_id no row has it answers 201
   and adds exactly the one row of the request. *)
C4_DuplicateClassRejected ==
    [][resp'.op = "add_class" =>
          LET data == resp'.request
          IN  /\ UNCHANGED <<students, periods, attendance, sqlite_sequence>>
              /\ IF \E c \in classes : c.class_id = data.class_id
                 THEN resp'.status = 400 /\ classes' = classes
                 ELSE /\ resp'.status = 201
                      /\ Cardinality(classes') = Cardinality(classes) + 1
                      /\ classes \subseteq classes'
                      /\ \E c \in classes' \ classes :
                             /\ c.class_id = data.class_id
                             /\ c.class_name = data.class_name]_vars

(* A rejected request that names another class_name and department than the
   stored row, with rows in the other tables *)
C4_Witness ==
    /\ resp.op = "add_class"
    /\ resp.status = 400
    /\ resp.request = [class_id |-> 1, class_name |-> "CSE-A", department |-> "CSE"]
    /\ [class_id |-> 1, class_name |-> "CSE-B", department |-> ""] \in classes
    /\ Cardinality(classes) = 2
    /\ students # {} /\ periods # {} /\ attendance # {}

(* C5: add_student with a reg_no that a row already has answers 400 and
   leaves the students table as it was, and no two student rows share a
   reg_no, whichever of add_student and bulk import wrote them. *)
C5_DuplicateStudentRejected ==
    [][/\ \A a, b \in students' : a.reg_no = b.reg_no => a = b
       /\ (/\ resp'.op = "add_student"
           /\ \E s \in students : s.reg_no = resp'.request.reg_no) =>
              resp'.status = 400 /\ students' = students]_vars

(* A rejected request for a reg_no whose row a bulk import wrote (only the
   import stores the name "m"), with another class_id than the stored row *)
C5_Witness ==
    /\ resp.op = "add_student"
    /\ resp.status = 400
    /\ resp.request.reg_no = RegA
    /\ resp.request.class_id = 2
    /\ [reg_no |-> RegA, student_name |-> <<"m">>, class_id |-> 1] \in students


(* C6 as stated: every create_period response carries a period_id greater
   than that of every response before it, also with requests served
   concurrently. *)
C6_ReturnedIncreasing ==
    \A i, j \in 1..Len(returned) : i < j => returned[i] < returned[j]

(* The ids given out so far: stored, or held by a request yet to answer *)
AssignedIds ==
    {p.period_id : p \in periods}
        \cup {conn[t].lastrowid : t \in {u \in Threads : pc[u] # "idle"}}

(* C6, amended: every create_period request is given a period_id greater
   than every period_id given out before it, so the ids of N requests are N
   distinct values and no id is returned twice; the order of the responses
   need not be the order of the ids. *)
C6_IdsDistinctAndFresh ==
    [][/\ \A i, j \in 1..Len(returned') : i # j => returned'[i] # returned'[j]
       /\ \A t, u \in Threads :
              (t # u /\ pc'[t] # "idle" /\ pc'[u] # "idle") =>
                  conn'[t].lastrowid # conn'[u].lastrowid
       /\ \A t \in Threads :
              (pc[t] = "idle" /\ pc'[t] = "executed") =>
                  /\ \A id \in AssignedIds : conn'[t].lastrowid > id
                  /\ \A i \in 1..Len(returned) : conn'[t].lastrowid > returned[i]]_vars

(* Two requests overlapped and the second id was returned first *)
C6_Witness == returned = <<2, 1>> /\ Cardinality(periods) = 2

RowWellFormed(row) == Len(row) >= 3 /\ int(strip(row[3])).error = None

(* The rows of the file, header dropped, that the import adds: well formed,
   with a reg_no that no student had before and no earlier well-formed row
   of the file carries *)
AddedRows(rows, before) ==
    {i \in 2..Len(rows) :
        /\ RowWellFormed(rows[i])
        /\ ~\E s \in before : s.reg_no = strip(rows[i][1])
        /\ ~\E j \in 2..(i - 1) :
               RowWellFormed(rows[j]) /\ strip(rows[j][1]) = strip(rows[i][1])}

(* C7: a bulk import of a decodable file reports as added the rows after
   the header that have three fields or more, an integer third field and a
   trimmed reg_no not yet a student, as skipped the other rows of three
   fields or more, counts rows of fewer fields in neither, and leaves the
   students table the former one plus the added rows. *)
C7_BulkImportCounts ==
    [][(resp'.op = "bulk_add_students" /\ resp'.status = 201) =>
          LET rows == resp'.request.rows
              added == AddedRows(rows, students)
              counted == {i \in 2..Len(rows) : Len(rows[i]) >= 3}
          IN  /\ resp'.body.added = Cardinality(added)
              /\ resp'.body.skipped = Cardinality(counted \ added)
              /\ students' = students \cup
                     {[reg_no |-> strip(rows[i][1]),
                       student_name |-> strip(rows[i][2]),
                       class_id |-> DecimalValue(strip(rows[i][3]))] : i \in added}
              /\ Cardinality(students') = Cardinality(students) + Cardinality(added)]_vars

(* The import of two good rows, a duplicate and a row of two fields *)
C7_Witness ==
    /\ resp.op = "bulk_add_students"
    /\ resp.request = ExampleFile
    /\ resp.status = 201
    /\ resp.body = [added |-> 2, skipped |-> 1]
    /\ Cardinality(students) = 2

(* C9: no step removes a class, a student, a period or the key of an
   attendance row, and the class, student and period rows keep their
   values. *)
C9_NothingDeleted ==
    [][/\ classes \subseteq classes'
       /\ students \subseteq students'
       /\ periods \subseteq periods'
       /\ \A a \in attendance : \E b \in attendance' : SameKey(a, b)]_vars

(* A mark has been replaced while all four tables hold rows *)
C9_Witness ==
    /\ resp.op = "mark_attendance"
    /\ resp.status = 200
    /\ classes # {} /\ students # {} /\ periods # {}
    /\ Cardinality(attendance) = 2
    /\ [period_id |-> 1, reg_no |-> RegA, is_present |-> 0] \in attendance

(* The integer a class_id filter stands for, or none *)
FilterValues(text) ==
    {n \in ClassIds \cup {0} :
        int(strip(text)).error = None /\ DecimalValue(strip(text)) = n}

(* C10: get_students with a class_id filter answers exactly the students
   whose class_id is the filter's, whether or not a class has that id, and
   with no filter or an empty one every student; it changes no table. *)
C10_FilterExact ==
    [][resp'.op = "get_students" =>
          /\ UNCHANGED tables
          /\ resp'.status = 200
          /\ LET args == resp'.request
             IN  IF "class_id" \in DOMAIN args /\ args.class_id # <<>>
                 THEN resp'.body =
                          {s \in students : s.class_id \in FilterValues(args.class_id)}
                 ELSE resp'.body = students]_vars

(* A filter that keeps one student and drops another, for a class_id that
   no class has *)
C10_Witness ==
    /\ resp.op = "get_students"
    /\ resp.request = [class_id |-> <<"2">>]
    /\ Cardinality(resp.body) = 1
    /\ Cardinality(students) = 2
    /\ ~\E c \in classes : c.class_id = 2

====
